---- MODULE Spec2Model ----
(***************************************************************************)
(* Model of the TOIL time tracker's entry store (src/src/store/            *)
(* useTimeStore.ts): the entries / projects / tags collections and the     *)
(* twelve store operations.                                                *)
(*                                                                         *)
(* JavaScript objects are modelled as TLA+ records whose DOMAIN is the set *)
(* of own keys, so that the spread merge { ...e, ...updates } is the       *)
(* domain-union merge.  Arrays are sequences (1-based).  null is Null,     *)
(* an explicit undefined value of a numeric/id field is Undefined.         *)
(***************************************************************************)
EXTENDS Integers, Sequences, FiniteSets, TLC

\* ---------------------------------------------------------------- bounds
\* Date.now() ranges over 1..MaxClock
MaxClock == 2
\* the entries array holds at most MaxEntries elements
MaxEntries == 3
\* crypto.randomUUID() is called at most MaxId times
MaxId == 3
\* the projects array holds at most MaxProjects elements
MaxProjects == 2
\* the tags array holds at most MaxTags elements
MaxTags == 1
\* where updateEntry is among the operations, entries are created while the
\* array holds fewer than MaxEdited elements
MaxEdited == 2
\* rows of one CSV file
MaxRows == 2

\* ------------------------------------------------------- JS value model
\* endTime: number | null
Null == -1
\* value of an optional field / parameter that is undefined
Undefined == -2
\* an id that crypto.randomUUID() never returned
UnknownId == 0

VARIABLES entries, projects, tags, clock, nextId, lastOp, ui

vars == <<entries, projects, tags, clock, nextId, lastOp, ui>>

\* obj[k] as JavaScript reads it: undefined when k is not an own key
Get(obj, k) == IF k \in DOMAIN obj THEN obj[k] ELSE Undefined

\* { ...a, ...b }
Spread(a, b) == [k \in (DOMAIN a) \cup (DOMAIN b) |-> IF k \in DOMAIN b THEN b[k] ELSE a[k]]

RECURSIVE FilterSeq(_, _)
\* arr.filter(x => x.id !== id)
FilterSeq(arr, id) ==
    IF arr = <<>> THEN <<>>
    ELSE IF Head(arr).id # id THEN <<Head(arr)>> \o FilterSeq(Tail(arr), id)
         ELSE FilterSeq(Tail(arr), id)

\* the merge with the spread order swapped: { ...updates, ...x }
MapUpdateKeepOld(arr, id, updates) ==
    [i \in 1..Len(arr) |-> IF arr[i].id = id THEN Spread(updates, arr[i]) ELSE arr[i]]

\* arr.map(x => x.id === id ? { ...x, ...updates } : x)
MapUpdate(arr, id, updates) ==
    [i \in 1..Len(arr) |-> IF arr[i].id = id THEN Spread(arr[i], updates) ELSE arr[i]]

\* findIndex with the test negated: the first entry that is closed
ActiveEntryIndexClosed(arr) ==
    IF \E i \in 1..Len(arr) : arr[i].endTime # Null
    THEN CHOOSE i \in 1..Len(arr) :
            /\ arr[i].endTime # Null
            /\ \A j \in 1..(i - 1) : arr[j].endTime = Null
    ELSE -1

\* the index of the last running entry, as findLastIndex would give it
ActiveEntryIndexLast(arr) ==
    IF \E i \in 1..Len(arr) : arr[i].endTime = Null
    THEN CHOOSE i \in 1..Len(arr) :
            /\ arr[i].endTime = Null
            /\ \A j \in (i + 1)..Len(arr) : arr[j].endTime # Null
    ELSE -1

\* arr.findIndex(e => e.endTime === null); sequence positions are 1-based, -1 when absent
ActiveEntryIndex(arr) ==
    IF \E i \in 1..Len(arr) : arr[i].endTime = Null
    THEN CHOOSE i \in 1..Len(arr) :
            /\ arr[i].endTime = Null
            /\ \A j \in 1..(i - 1) : arr[j].endTime # Null
    ELSE -1

\* the Dashboard's activeEntry: entries.find(e => e.endTime === null)
ActiveEntry(arr) ==
    IF \E i \in 1..Len(arr) : arr[i].endTime = Null
    THEN arr[CHOOSE i \in 1..Len(arr) :
                /\ arr[i].endTime = Null
                /\ \A j \in 1..(i - 1) : arr[j].endTime # Null]
    ELSE [id |-> Undefined]

\* ------------------------------------------------------------- inputs
\* argument lists of startEntry; an omitted optional argument is an absent key
StartArgs ==
    { [type |-> "work"],
      [type |-> "break", projectId |-> Undefined, tagIds |-> <<>>,
       targetDuration |-> Undefined, isWorkingBreak |-> FALSE],
      [type |-> "break", projectId |-> Undefined, tagIds |-> <<>>,
       targetDuration |-> Undefined, isWorkingBreak |-> TRUE],
      [type |-> "work", projectId |-> 61, tagIds |-> <<71>>, targetDuration |-> 0],
      [type |-> "break", targetDuration |-> 600] }

\* the argument lists the Dashboard's buttons pass to startEntry
UiStartArgs ==
    { [type |-> "work"],
      [type |-> "break", projectId |-> Undefined, tagIds |-> <<>>,
       targetDuration |-> Undefined, isWorkingBreak |-> FALSE],
      [type |-> "break", projectId |-> Undefined, tagIds |-> <<>>,
       targetDuration |-> Undefined, isWorkingBreak |-> TRUE] }

\* what the user interface shows before a page has rendered its totals
NoView == [page |-> "none"]

Init ==
    /\ ui = NoView
    /\ entries = <<>>
    /\ projects = <<>>
    /\ tags = <<>>
    /\ clock = 1
    /\ nextId = 1
    /\ lastOp = "init"

\* the default applied on a falsy test (!target), which also replaces 0
DefaultTargetFalsy(type, targetDuration) ==
    IF targetDuration = Undefined \/ targetDuration = 0
    THEN (IF type = "work" THEN 25 * 60 ELSE 5 * 60)
    ELSE targetDuration

\* startEntry's "Defaults": targetDuration when the argument is undefined
DefaultTarget(type, targetDuration) ==
    IF targetDuration = Undefined
    THEN (IF type = "work" THEN 25 * 60 ELSE 5 * 60)
    ELSE targetDuration

\* the active entry closed at the instant of the previous reading of the clock
StoppedEntriesStale(arr, now) ==
    LET activeEntryIndex == ActiveEntryIndex(arr)
    IN  IF activeEntryIndex # -1
        THEN [arr EXCEPT ![activeEntryIndex] = Spread(@, [endTime |-> clock])]
        ELSE arr

\* startEntry's "Stop the active entry if exists": the copy of arr with the first
\* running entry closed at now
StoppedEntries(arr, now) ==
    LET activeEntryIndex == ActiveEntryIndex(arr)
    IN  IF activeEntryIndex # -1
        THEN [arr EXCEPT ![activeEntryIndex] = Spread(@, [endTime |-> now])]
        ELSE arr

\* startEntry that puts the new entry in front of the collection
StartEntryPrepend(args, now) ==
    /\ Len(entries) < MaxEntries
    /\ nextId <= MaxId
    /\ LET newEntries == StoppedEntries(entries, now)
           newEntry == [id |-> nextId,
                        startTime |-> now,
                        endTime |-> Null,
                        type |-> args.type,
                        projectId |-> Get(args, "projectId"),
                        tagIds |-> IF "tagIds" \in DOMAIN args THEN args.tagIds ELSE <<>>,
                        targetDuration |-> DefaultTarget(args.type, Get(args, "targetDuration")),
                        isWorkingBreak |-> ("isWorkingBreak" \in DOMAIN args /\ args.isWorkingBreak)]
       IN  entries' = <<newEntry>> \o newEntries
    /\ clock' = now
    /\ nextId' = nextId + 1
    /\ lastOp' = "startEntry"
    /\ UNCHANGED <<projects, tags, ui>>

\* startEntry(type, projectId, tagIds = [], targetDuration, isWorkingBreak)
StartEntry(args, now) ==
    /\ Len(entries) < MaxEntries
    /\ nextId <= MaxId
    /\ LET target == DefaultTarget(args.type, Get(args, "targetDuration"))
           tagIds == IF "tagIds" \in DOMAIN args THEN args.tagIds ELSE <<>>
           newEntries == StoppedEntries(entries, now)
           newEntry == [id |-> nextId,
                        startTime |-> now,
                        endTime |-> Null,
                        type |-> args.type,
                        projectId |-> Get(args, "projectId"),
                        tagIds |-> tagIds,
                        targetDuration |-> target,
                        isWorkingBreak |-> ("isWorkingBreak" \in DOMAIN args /\ args.isWorkingBreak)]
       IN  entries' = Append(newEntries, newEntry)
    /\ clock' = now
    /\ nextId' = nextId + 1
    /\ lastOp' = "startEntry"
    /\ UNCHANGED <<projects, tags, ui>>

\* stopEntry that computes the closed copy and never stores it
StopEntryNoSet(now) ==
    /\ clock' = now
    /\ lastOp' = "stopEntry"
    /\ UNCHANGED <<entries, projects, tags, nextId, ui>>

\* stopEntry that closes every running entry
StopEntryAll(now) ==
    /\ entries' = [i \in 1..Len(entries) |->
                      IF entries[i].endTime = Null
                      THEN Spread(entries[i], [endTime |-> now])
                      ELSE entries[i]]
    /\ clock' = now
    /\ lastOp' = "stopEntry"
    /\ UNCHANGED <<projects, tags, nextId, ui>>

\* stopEntry that stamps now on every entry from the first up to the running one
StopEntryRestamp(now) ==
    /\ ActiveEntryIndex(entries) # -1
    /\ entries' = [i \in 1..Len(entries) |->
                      IF i <= ActiveEntryIndex(entries)
                      THEN Spread(entries[i], [endTime |-> now])
                      ELSE entries[i]]
    /\ clock' = now
    /\ lastOp' = "stopEntry"
    /\ UNCHANGED <<projects, tags, nextId, ui>>

\* stopEntry()
StopEntry(now) ==
    /\ LET activeEntryIndex == ActiveEntryIndex(entries)
       IN  IF activeEntryIndex # -1
           THEN entries' = [entries EXCEPT ![activeEntryIndex] = Spread(@, [endTime |-> now])]
           ELSE UNCHANGED entries
    /\ clock' = now
    /\ lastOp' = "stopEntry"
    /\ UNCHANGED <<projects, tags, nextId, ui>>

\* entry arguments of addManualEntry (Omit<TimeEntry, 'id'>): a closed entry, an
\* entry whose end is before its start, and an entry that is still running
ManualEntries ==
    { [startTime |-> 1, endTime |-> 2, type |-> "work", projectId |-> 61,
       tagIds |-> <<>>, notes |-> "n"],
      [startTime |-> 2, endTime |-> 1, type |-> "break", projectId |-> Undefined,
       tagIds |-> <<>>, notes |-> ""],
      [startTime |-> 2, endTime |-> Null, type |-> "work", projectId |-> Undefined,
       tagIds |-> <<>>, notes |-> ""] }

\* updates arguments of updateEntry (Partial<TimeEntry>)
EntryUpdates ==
    { [targetDuration |-> 55 * 60],
      [endTime |-> Null, notes |-> "x"] }

\* an updates argument that carries the id field (Partial<TimeEntry> allows it)
IdUpdates ==
    { [id |-> 1] }

\* the ids a caller can pass: those of the stored elements and one that matches none
IdsOf(arr) == {arr[i].id : i \in 1..Len(arr)} \cup {UnknownId}

\* addManualEntry that stops the running entry when the new entry is running
AddManualEntryExclusive(entry) ==
    /\ Len(entries) < MaxEntries
    /\ nextId <= MaxId
    /\ LET newEntry == Spread(entry, [id |-> nextId])
           kept == IF entry.endTime = Null
                   THEN StoppedEntries(entries, entry.startTime)
                   ELSE entries
       IN  entries' = Append(kept, newEntry)
    /\ nextId' = nextId + 1
    /\ lastOp' = "addManualEntry"
    /\ UNCHANGED <<projects, tags, clock, ui>>

\* addManualEntry(entry)
AddManualEntry(entry) ==
    /\ Len(entries) < MaxEntries
    /\ nextId <= MaxId
    /\ LET newEntry == Spread(entry, [id |-> nextId])
       IN  entries' = Append(entries, newEntry)
    /\ nextId' = nextId + 1
    /\ lastOp' = "addManualEntry"
    /\ UNCHANGED <<projects, tags, clock, ui>>

\* updateEntry(id, updates)
UpdateEntry(id, updates) ==
    /\ entries' = MapUpdate(entries, id, updates)
    /\ lastOp' = "updateEntry"
    /\ UNCHANGED <<projects, tags, clock, nextId, ui>>

\* deleteEntry that moves the survivors: the last entry fills the hole
DeleteEntrySwapRemove(id) ==
    /\ LET hit == {i \in 1..Len(entries) : entries[i].id = id}
       IN  IF hit = {}
           THEN UNCHANGED entries
           ELSE LET i == CHOOSE k \in hit : TRUE
                    n == Len(entries)
                IN  entries' = SubSeq([entries EXCEPT ![i] = entries[n]], 1, n - 1)
    /\ lastOp' = "deleteEntry"
    /\ UNCHANGED <<projects, tags, clock, nextId, ui>>

\* deleteEntry(id)
DeleteEntry(id) ==
    /\ entries' = FilterSeq(entries, id)
    /\ lastOp' = "deleteEntry"
    /\ UNCHANGED <<projects, tags, clock, nextId, ui>>

\* project arguments of addProject (Omit<Project, 'id'>)
ProjectInputs ==
    { [name |-> "A", color |-> "#3b82f6"],
      [name |-> "B", color |-> "#999999"] }

\* updates arguments of updateProject (Partial<Project>)
ProjectUpdates ==
    { [name |-> "B"],
      [isArchived |-> TRUE] }

\* tag arguments of addTag (Omit<Tag, 'id'>)
TagInputs ==
    { [name |-> "t", color |-> "#10b981"] }

\* updates arguments of updateTag (Partial<Tag>)
TagUpdates ==
    { [name |-> "u"],
      [color |-> "#000000"] }

\* addProject(project)
AddProject(project) ==
    /\ Len(projects) < MaxProjects
    /\ nextId <= MaxId
    /\ LET newProject == Spread(project, [id |-> nextId])
       IN  projects' = Append(projects, newProject)
    /\ nextId' = nextId + 1
    /\ lastOp' = "addProject"
    /\ UNCHANGED <<entries, tags, clock, ui>>

\* updateProject(id, updates)
UpdateProject(id, updates) ==
    /\ projects' = MapUpdate(projects, id, updates)
    /\ lastOp' = "updateProject"
    /\ UNCHANGED <<entries, tags, clock, nextId, ui>>

\* deleteProject that also takes the project off the entries
DeleteProjectCascade(id) ==
    /\ projects' = FilterSeq(projects, id)
    /\ entries' = [i \in 1..Len(entries) |->
                      IF Get(entries[i], "projectId") = id
                      THEN Spread(entries[i], [projectId |-> Undefined])
                      ELSE entries[i]]
    /\ lastOp' = "deleteProject"
    /\ UNCHANGED <<tags, clock, nextId, ui>>

\* deleteProject(id)
DeleteProject(id) ==
    /\ projects' = FilterSeq(projects, id)
    /\ lastOp' = "deleteProject"
    /\ UNCHANGED <<entries, tags, clock, nextId, ui>>

\* addTag(tag)
AddTag(tag) ==
    /\ Len(tags) < MaxTags
    /\ nextId <= MaxId
    /\ LET newTag == Spread(tag, [id |-> nextId])
       IN  tags' = Append(tags, newTag)
    /\ nextId' = nextId + 1
    /\ lastOp' = "addTag"
    /\ UNCHANGED <<entries, projects, clock, ui>>

\* updateTag(id, updates)
UpdateTag(id, updates) ==
    /\ tags' = MapUpdate(tags, id, updates)
    /\ lastOp' = "updateTag"
    /\ UNCHANGED <<entries, projects, clock, nextId, ui>>

\* deleteTag with the filter test negated: keeps only the matching tag
DeleteTagKeepsMatch(id) ==
    /\ tags' = SelectSeq(tags, LAMBDA t : t.id = id)
    /\ lastOp' = "deleteTag"
    /\ UNCHANGED <<entries, projects, clock, nextId, ui>>

\* deleteTag(id)
DeleteTag(id) ==
    /\ tags' = FilterSeq(tags, id)
    /\ lastOp' = "deleteTag"
    /\ UNCHANGED <<entries, projects, clock, nextId, ui>>

\* data arguments of importData: an empty backup, a backup that omits projects and
\* tags and holds a running and a closed entry, and a backup with one closed entry,
\* its project and its tag
ImportPayloads ==
    { [entries |-> <<>>, projects |-> <<>>, tags |-> <<>>],
      [entries |-> << [id |-> 51, startTime |-> 1, endTime |-> Null, type |-> "work",
                       projectId |-> Undefined, tagIds |-> <<>>,
                       targetDuration |-> 25 * 60, isWorkingBreak |-> FALSE],
                      [id |-> 52, startTime |-> 1, endTime |-> 2, type |-> "break",
                       projectId |-> Undefined, tagIds |-> <<>>,
                       targetDuration |-> 5 * 60, isWorkingBreak |-> FALSE] >>],
      [entries |-> << [id |-> 53, startTime |-> 1, endTime |-> 2, type |-> "work",
                       projectId |-> 61, tagIds |-> <<71>>,
                       targetDuration |-> 25 * 60, isWorkingBreak |-> FALSE] >>,
       projects |-> << [id |-> 61, name |-> "A", color |-> "#3b82f6"] >>,
       tags |-> << [id |-> 71, name |-> "t", color |-> "#10b981"] >>] }

\* data.key || []
OrEmpty(data, key) == IF key \in DOMAIN data THEN data[key] ELSE <<>>

\* importData that appends the backup to what the store holds
ImportDataMerge(data) ==
    /\ entries' = entries \o OrEmpty(data, "entries")
    /\ projects' = projects \o OrEmpty(data, "projects")
    /\ tags' = tags \o OrEmpty(data, "tags")
    /\ lastOp' = "importData"
    /\ UNCHANGED <<clock, nextId, ui>>

\* importData(data)
ImportData(data) ==
    /\ entries' = OrEmpty(data, "entries")
    /\ projects' = OrEmpty(data, "projects")
    /\ tags' = OrEmpty(data, "tags")
    /\ lastOp' = "importData"
    /\ UNCHANGED <<clock, nextId, ui>>

\* ------------------------------------------------------ entry editor
\* Instants are milliseconds since the epoch; the local time zone has offset 0 and no
\* daylight saving, so local calendar boundaries are multiples of these lengths.
MsPerSecond == 1000

MsPerMinute == 60 * MsPerSecond

MsPerHour == 60 * MsPerMinute

MsPerDay == 24 * MsPerHour

\* value ? ... : ... and value || ... on a number, null or undefined
Truthy(value) == value \notin {Null, Undefined, 0}

\* the empty string of a datetime-local input
EmptyField == -3

\* format(t, "yyyy-MM-dd'T'HH:mm"): the text names the minute and drops the seconds
\* and milliseconds; a text is represented by the number of the minute it names
FormatMinute(t) == t \div MsPerMinute

\* new Date(text).getTime()
ParseMinute(text) == text * MsPerMinute

\* the editor's fields after its initialising effect, for an existing entry
EditorFormOf(entry) ==
    [type |-> entry.type,
     startTime |-> FormatMinute(entry.startTime),
     endTime |-> IF Truthy(entry.endTime) THEN FormatMinute(entry.endTime) ELSE EmptyField,
     projectId |-> Get(entry, "projectId"),
     tagIds |-> IF "tagIds" \in DOMAIN entry THEN entry.tagIds ELSE <<>>,
     notes |-> IF "notes" \in DOMAIN entry THEN entry.notes ELSE ""]

\* the editor's fields after its initialising effect, for a new entry
EditorFormNew(now) ==
    [type |-> "work",
     startTime |-> FormatMinute(now),
     endTime |-> FormatMinute(now),
     projectId |-> Undefined,
     tagIds |-> <<>>,
     notes |-> ""]

\* first instant the editor model's clock shows: 09:00:30.500 on the day after the epoch
EditorEpoch == MsPerDay + 9 * MsPerHour + 30 * MsPerSecond + 500

\* readings of Date.now() in the editor model
EditorInstants == { EditorEpoch, EditorEpoch + 90 * MsPerSecond }

\* what the user changes in the form before submitting: nothing, the end field
\* cleared, an earlier start typed, an end typed that is before the start, an end
\* typed whose getTime() is 0, the type
EditorEdits(form) ==
    { [type |-> form.type],
      [endTime |-> EmptyField],
      [startTime |-> FormatMinute(EditorEpoch) - 5, notes |-> "x"],
      [endTime |-> FormatMinute(EditorEpoch) - 60],
      [endTime |-> 0],
      [type |-> "break"] }

\* handleSaveEntry(entry) of the Dashboard
HandleSaveEntry(entry) ==
    IF Truthy(entry.id)
    THEN UpdateEntry(entry.id, entry)
    ELSE IF Truthy(entry.startTime)
         THEN AddManualEntry([startTime |-> entry.startTime,
                              endTime |-> IF Truthy(entry.endTime) THEN entry.endTime ELSE Null,
                              type |-> entry.type,
                              projectId |-> entry.projectId,
                              tagIds |-> entry.tagIds,
                              notes |-> entry.notes])
         ELSE UNCHANGED vars

\* handleSubmit of the editor opened on the entry with this id (Undefined: a new
\* entry) with these field values; a submit with the end before the start only alerts
HandleSubmit(id, form) ==
    LET start == ParseMinute(form.startTime)
        end == IF form.endTime # EmptyField THEN ParseMinute(form.endTime) ELSE Null
    IN  IF Truthy(end) /\ end < start
        THEN /\ lastOp' = "alert"
             /\ UNCHANGED <<entries, projects, tags, clock, nextId, ui>>
        ELSE HandleSaveEntry([id |-> id,
                              type |-> form.type,
                              startTime |-> start,
                              endTime |-> end,
                              projectId |-> form.projectId,
                              tagIds |-> form.tagIds,
                              notes |-> form.notes])

\* the editor is opened on the i-th entry, edited and submitted
EditEntry(i, edit) ==
    HandleSubmit(entries[i].id, Spread(EditorFormOf(entries[i]), edit))

\* the editor is opened by "add entry", edited and submitted
AddEntry(edit) ==
    HandleSubmit(Undefined, Spread(EditorFormNew(clock), edit))

\* the store when the editor model starts
InitEditor ==
    /\ ui = NoView
    /\ entries = <<>>
    /\ projects = <<>>
    /\ tags = <<>>
    /\ clock = EditorEpoch
    /\ nextId = 1
    /\ lastOp = "init"

\* ------------------------------------------------------ calendar
\* Instant 0 is a Monday 00:00 local time, the 15th of a month of 30 days, so every
\* instant of that month fits the integers of the model.
MsPerWeek == 7 * MsPerDay

\* Math.max / Math.min
Max(a, b) == IF a >= b THEN a ELSE b

Min(a, b) == IF a <= b THEN a ELSE b

\* startOfDay(t) / endOfDay(t): 00:00:00.000 and 23:59:59.999 of t's day
StartOfDay(t) == (t \div MsPerDay) * MsPerDay

EndOfDay(t) == StartOfDay(t) + MsPerDay - 1

\* startOfWeek(t, { weekStartsOn: 1 }) / endOfWeek(t, { weekStartsOn: 1 })
StartOfWeek(t) == (t \div MsPerWeek) * MsPerWeek

EndOfWeek(t) == StartOfWeek(t) + MsPerWeek - 1

\* startOfMonth(t) / endOfMonth(t) for the instants of the month that holds instant 0
StartOfMonth(t) == 0 - 14 * MsPerDay

EndOfMonth(t) == 16 * MsPerDay - 1

\* subDays(t, amount)
SubDays(t, amount) == t - amount * MsPerDay

\* isToday(t), evaluated when Date.now() reads reading
IsToday(t, reading) == StartOfDay(t) = StartOfDay(reading)

\* differenceInSeconds(later, earlier): whole seconds, rounded towards zero
DifferenceInSeconds(later, earlier) ==
    IF later >= earlier
    THEN (later - earlier) \div MsPerSecond
    ELSE 0 - ((earlier - later) \div MsPerSecond)

RECURSIVE SumSeq(_)
\* arr.reduce((acc, x) => acc + x, 0)
SumSeq(arr) == IF arr = <<>> THEN 0 ELSE Head(arr) + SumSeq(Tail(arr))

\* ------------------------------------------------------ reports page
\* Durations are kept in milliseconds: the code's seconds are these divided by 1000.
Periods == { "day", "week", "fortnight", "month" }

\* range, computed when Date.now() reads now
Range(period, now) ==
    CASE period = "day" -> [start |-> StartOfDay(now), end |-> EndOfDay(now)]
      [] period = "week" -> [start |-> StartOfWeek(now), end |-> EndOfWeek(now)]
      [] period = "fortnight" -> [start |-> SubDays(now, 14), end |-> EndOfDay(now)]
      [] period = "month" -> [start |-> StartOfMonth(now), end |-> EndOfMonth(now)]

\* e.endTime || Date.now()
EndOrNow(e, now) == IF Truthy(e.endTime) THEN e.endTime ELSE now

\* the predicate of filteredEntries
InRange(e, range, now) ==
    IF ~Truthy(e.endTime) /\ ~(range.start <= now /\ now <= range.end)
    THEN FALSE
    ELSE e.startTime <= range.end /\ EndOrNow(e, now) >= range.start

\* filteredEntries
FilteredEntries(arr, range, now) == SelectSeq(arr, LAMBDA e : InRange(e, range, now))

\* eachDayOfInterval(range): the start of every day from range.start's to range.end's
EachDayOfInterval(range) ==
    [k \in 1..((range.end \div MsPerDay) - (range.start \div MsPerDay) + 1) |->
        ((range.start \div MsPerDay) + k - 1) * MsPerDay]

\* Number((seconds / 3600).toFixed(2)), in hundredths of an hour; no total of the
\* model lies half way between two hundredths
ToFixed2(ms) == (ms + 18 * MsPerSecond) \div (36 * MsPerSecond)

\* the day's term of an entry without the floor at zero
DayOverlapSigned(e, day, now) ==
    LET dayStart == StartOfDay(day)
        dayEnd == EndOfDay(day)
    IN  IF e.startTime < dayEnd /\ EndOrNow(e, now) > dayStart /\ e.type = "work"
        THEN Min(EndOrNow(e, now), dayEnd) - Max(e.startTime, dayStart)
        ELSE 0

\* what the entry adds to workSeconds of the day: nothing unless it is a work entry
\* among dayEntries
DayOverlap(e, day, now) ==
    LET dayStart == StartOfDay(day)
        dayEnd == EndOfDay(day)
    IN  IF e.startTime < dayEnd /\ EndOrNow(e, now) > dayStart /\ e.type = "work"
        THEN Max(0, Min(EndOrNow(e, now), dayEnd) - Max(e.startTime, dayStart))
        ELSE 0

\* barData
BarData(filtered, range, now) ==
    LET days == EachDayOfInterval(range)
    IN  [k \in 1..Len(days) |->
            LET workMs == SumSeq([i \in 1..Len(filtered) |-> DayOverlap(filtered[i], days[k], now)])
            IN  [fullDate |-> days[k], workMs |-> workMs, workHours |-> ToFixed2(workMs)]]

\* seconds of pieData's forEach: the overlap of a work entry with the range
RangeOverlap(e, range, now) ==
    Max(0, Min(EndOrNow(e, now), range.end) - Max(e.startTime, range.start))

RECURSIVE ProjectKeys(_, _)
\* the keys of projectMap in insertion order: the projectIds of the work entries
ProjectKeys(work, seen) ==
    IF work = <<>> THEN <<>>
    ELSE LET pid == Get(Head(work), "projectId")
         IN  IF Truthy(pid) /\ pid \notin seen
             THEN <<pid>> \o ProjectKeys(Tail(work), seen \cup {pid})
             ELSE ProjectKeys(Tail(work), seen)

\* projectMap as the sequence of its [pid, seconds] pairs
ProjectMap(filtered, range, now) ==
    LET work == SelectSeq(filtered, LAMBDA e : e.type = "work")
        keys == ProjectKeys(work, {})
    IN  [k \in 1..Len(keys) |->
            [pid |-> keys[k],
             ms |-> SumSeq([i \in 1..Len(work) |->
                              IF Get(work[i], "projectId") = keys[k]
                              THEN RangeOverlap(work[i], range, now) ELSE 0])]]

\* noProjectSeconds
NoProjectMs(filtered, range, now) ==
    LET work == SelectSeq(filtered, LAMBDA e : e.type = "work")
    IN  SumSeq([i \in 1..Len(work) |->
                  IF Truthy(Get(work[i], "projectId"))
                  THEN 0 ELSE RangeOverlap(work[i], range, now)])

\* projects.find(p => p.id === pid)?.name || 'Unknown'
ProjectName(arr, pid) ==
    LET hit == {i \in 1..Len(arr) : arr[i].id = pid}
    IN  IF hit = {} THEN "Unknown"
        ELSE LET first == CHOOSE i \in hit : \A j \in hit : i <= j
             IN  IF arr[first].name = "" THEN "Unknown" ELSE arr[first].name

\* pieData
PieData(filtered, range, now, projs) ==
    LET map == ProjectMap(filtered, range, now)
        noProjectMs == NoProjectMs(filtered, range, now)
        data == [k \in 1..Len(map) |->
                    [name |-> ProjectName(projs, map[k].pid), value |-> ToFixed2(map[k].ms)]]
    IN  IF noProjectMs > 60 * MsPerSecond
        THEN Append(data, [name |-> "No Project", value |-> ToFixed2(noProjectMs)])
        ELSE data

\* a Reports page that writes its filtered entries back to the store
RenderReportsInPlace(period, readings) ==
    LET range == Range(period, readings.range)
        filtered == FilteredEntries(entries, range, readings.filter)
        barData == BarData(filtered, range, readings.bar)
    IN  /\ ui' = [page |-> "reports",
                  period |-> period,
                  range |-> range,
                  readings |-> readings,
                  filteredEntries |-> filtered,
                  barData |-> barData,
                  projectMap |-> ProjectMap(filtered, range, readings.pie),
                  noProjectMs |-> NoProjectMs(filtered, range, readings.pie),
                  pieData |-> PieData(filtered, range, readings.pie, projects),
                  totalWorkHours |-> SumSeq([k \in 1..Len(barData) |-> barData[k].workHours])]
        /\ entries' = filtered
        /\ clock' = readings.pie
        /\ lastOp' = "renderReports"
        /\ UNCHANGED <<projects, tags, nextId>>

\* the Reports page renders with this period selected; the four memos read
\* Date.now() as readings.range, readings.filter, readings.bar and readings.pie
RenderReports(period, readings) ==
    LET range == Range(period, readings.range)
        filtered == FilteredEntries(entries, range, readings.filter)
        barData == BarData(filtered, range, readings.bar)
    IN  /\ ui' = [page |-> "reports",
                  period |-> period,
                  range |-> range,
                  readings |-> readings,
                  filteredEntries |-> filtered,
                  barData |-> barData,
                  projectMap |-> ProjectMap(filtered, range, readings.pie),
                  noProjectMs |-> NoProjectMs(filtered, range, readings.pie),
                  pieData |-> PieData(filtered, range, readings.pie, projects),
                  totalWorkHours |-> SumSeq([k \in 1..Len(barData) |-> barData[k].workHours])]
        /\ clock' = readings.pie
        /\ lastOp' = "renderReports"
        /\ UNCHANGED <<entries, projects, tags, nextId>>

\* ------------------------------------------------------ dashboard totals
\* todayEntries, when isToday reads Date.now() as reading
TodayEntries(arr, reading) == SelectSeq(arr, LAMBDA e : IsToday(e.startTime, reading))

\* the filter of calculateTotalSeconds(category)
InCategory(e, category) ==
    LET flagged == "isWorkingBreak" \in DOMAIN e /\ e.isWorkingBreak
    IN  IF category = "active"
        THEN e.type = "work" \/ (e.type = "break" /\ flagged)
        ELSE e.type = "break" /\ ~flagged

\* calculateTotalSeconds(category), with the component's state now
CalculateTotalSeconds(category, todayEntries, now) ==
    LET chosen == SelectSeq(todayEntries, LAMBDA e : InCategory(e, category))
    IN  SumSeq([i \in 1..Len(chosen) |->
                  DifferenceInSeconds(EndOrNow(chosen[i], now), chosen[i].startTime)])

\* the Dashboard renders: its state now holds the reading of the last tick, and
\* isToday reads Date.now() as reading
RenderDashboard(now, reading) ==
    LET todayEntries == TodayEntries(entries, reading)
    IN  /\ ui' = [page |-> "dashboard",
                  now |-> now,
                  reading |-> reading,
                  totalWorkSeconds |-> CalculateTotalSeconds("active", todayEntries, now),
                  totalBreakSeconds |-> CalculateTotalSeconds("rest", todayEntries, now)]
        /\ clock' = reading
        /\ lastOp' = "renderDashboard"
        /\ UNCHANGED <<entries, projects, tags, nextId>>

\* ------------------------------------------------------ dashboard tick
\* While the Dashboard ticks, ui holds its state now, the ref lastVibratedEntryId
\* and the calls of navigator.vibrate in order, each with the active entry's id
\* and the reading of the tick.
\* the callback of setInterval that also stops the entry whose target is reached
TickAutoStop(currentTime) ==
    LET i == ActiveEntryIndex(entries)
        reached == /\ i # -1
                   /\ Truthy(Get(entries[i], "targetDuration"))
                   /\ DifferenceInSeconds(currentTime, entries[i].startTime)
                          >= entries[i].targetDuration
    IN  /\ "lastVibratedEntryId" \in DOMAIN ui
        /\ ui' = [ui EXCEPT !.now = currentTime]
        /\ entries' = IF reached
                      THEN [entries EXCEPT ![i] = Spread(@, [endTime |-> currentTime])]
                      ELSE entries
        /\ clock' = currentTime
        /\ lastOp' = "tick"
        /\ UNCHANGED <<projects, tags, nextId>>

\* the callback of setInterval without the ref: it vibrates on every tick past the target
TickNoRef(currentTime) ==
    LET i == ActiveEntryIndex(entries)
        fires == /\ i # -1
                 /\ Truthy(Get(entries[i], "targetDuration"))
                 /\ DifferenceInSeconds(currentTime, entries[i].startTime)
                        >= entries[i].targetDuration
    IN  /\ "lastVibratedEntryId" \in DOMAIN ui
        /\ ui' = [ui EXCEPT !.now = currentTime,
                            !.lastVibratedEntryId = IF fires THEN entries[i].id ELSE @,
                            !.vibrated = IF fires /\ Len(@) < MaxEntries
                                         THEN Append(@, [id |-> entries[i].id, at |-> currentTime])
                                         ELSE @]
        /\ clock' = currentTime
        /\ lastOp' = "tick"
        /\ UNCHANGED <<entries, projects, tags, nextId>>

\* the callback of setInterval, run when Date.now() reads currentTime
Tick(currentTime) ==
    LET i == ActiveEntryIndex(entries)
        fires == /\ i # -1
                 /\ Truthy(Get(entries[i], "targetDuration"))
                 /\ DifferenceInSeconds(currentTime, entries[i].startTime)
                        >= entries[i].targetDuration
                 /\ ui.lastVibratedEntryId # entries[i].id
    IN  /\ "lastVibratedEntryId" \in DOMAIN ui
        /\ ui' = [ui EXCEPT !.now = currentTime,
                            !.lastVibratedEntryId = IF fires THEN entries[i].id ELSE @,
                            !.vibrated = IF fires
                                         THEN Append(@, [id |-> entries[i].id, at |-> currentTime])
                                         ELSE @]
        /\ clock' = currentTime
        /\ lastOp' = "tick"
        /\ UNCHANGED <<entries, projects, tags, nextId>>

\* the effect on activeEntry?.id has to run: there is no active entry any more
\* and the ref still holds an id
ResetPending ==
    /\ "lastVibratedEntryId" \in DOMAIN ui
    /\ ActiveEntryIndex(entries) = -1
    /\ ui.lastVibratedEntryId # Null

\* the effect on activeEntry?.id
ResetVibration ==
    /\ ResetPending
    /\ ui' = [ui EXCEPT !.lastVibratedEntryId = Null]
    /\ lastOp' = "resetVibration"
    /\ UNCHANGED <<entries, projects, tags, clock, nextId>>

\* the minutes of the quick target selectors shown for an entry of this type
TargetMinutes(type) == IF type = "work" THEN {25, 55, 85} ELSE {5, 10, 30}

\* a quick target selector is clicked
QuickTarget(m) ==
    LET i == ActiveEntryIndex(entries)
    IN  /\ i # -1
        /\ m \in TargetMinutes(entries[i].type)
        /\ UpdateEntry(entries[i].id, [targetDuration |-> m * 60])

\* first instant of the tick model: 10:00 of Today
TickEpoch == 2 * MsPerDay + 10 * MsPerHour

\* readings of Date.now() in the tick model: the first instant, and 299.9 s, 300 s
\* and 1500 s later
TickInstants ==
    { TickEpoch, TickEpoch + 299 * MsPerSecond + 900, TickEpoch + 300 * MsPerSecond,
      TickEpoch + 1500 * MsPerSecond }

\* the Dashboard is mounted over the empty store
InitTick ==
    /\ ui = [page |-> "dashboard", now |-> TickEpoch,
             lastVibratedEntryId |-> Null, vibrated |-> <<>>]
    /\ entries = <<>>
    /\ projects = <<>>
    /\ tags = <<>>
    /\ clock = TickEpoch
    /\ nextId = 1
    /\ lastOp = "init"

\* ------------------------------------------------------ settings: CSV import
\* ui holds, on the settings page: whether Papa.parse is still reading the file,
\* the store object the handler closed over (its project list), the rows of the
\* file, and addedCount of the last alert (Undefined before the first import).

\* new Date(text).getTime() of an ISO date-time text; a text is held as [iso |-> instant]
ParseIso(text) == text.iso

\* the empty text of a CSV field that holds a date-time
EmptyText == [iso |-> EmptyField]

\* store.projects.find(p => p.name === name) on the list projs; Undefined when absent
FindByName(projs, name) ==
    LET hit == {i \in 1..Len(projs) : projs[i].name = name}
    IN  IF hit = {} THEN Undefined
        ELSE projs[CHOOSE i \in hit : \A j \in hit : i <= j].id

\* the forEach body resolving names against the live store instead of the closed-over one
ImportRowLive(row, snapshot, acc) ==
    IF row.startTime = EmptyText THEN acc
    ELSE LET found == IF row.projectName # "" THEN FindByName(acc.projects, row.projectName)
                      ELSE Undefined
             creates == row.projectName # "" /\ found = Undefined
             entryId == IF creates THEN acc.nextId + 1 ELSE acc.nextId
         IN  [entries |-> Append(acc.entries,
                                 [startTime |-> ParseIso(row.startTime),
                                  endTime |-> IF row.endTime # EmptyText
                                              THEN ParseIso(row.endTime) ELSE Null,
                                  type |-> IF row.type # "" THEN row.type ELSE "work",
                                  projectId |-> IF creates THEN acc.nextId ELSE found,
                                  tagIds |-> <<>>,
                                  notes |-> row.notes,
                                  id |-> entryId]),
              projects |-> IF creates
                           THEN Append(acc.projects,
                                       [name |-> row.projectName, color |-> "#999999",
                                        id |-> acc.nextId])
                           ELSE acc.projects,
              nextId |-> entryId + 1,
              addedCount |-> acc.addedCount + 1]

\* the body of importedData.forEach for one row: acc is the store so far (entries,
\* projects, the next id) with addedCount, snapshot the closed-over store.projects
ImportRow(row, snapshot, acc) ==
    IF row.startTime = EmptyText THEN acc
    ELSE LET found == IF row.projectName # "" THEN FindByName(snapshot, row.projectName)
                      ELSE Undefined
             creates == row.projectName # "" /\ found = Undefined
             entryId == IF creates THEN acc.nextId + 1 ELSE acc.nextId
         IN  [entries |-> Append(acc.entries,
                                 [startTime |-> ParseIso(row.startTime),
                                  endTime |-> IF row.endTime # EmptyText
                                              THEN ParseIso(row.endTime) ELSE Null,
                                  type |-> IF row.type # "" THEN row.type ELSE "work",
                                  projectId |-> found,
                                  tagIds |-> <<>>,
                                  notes |-> row.notes,
                                  id |-> entryId]),
              projects |-> IF creates
                           THEN Append(acc.projects,
                                       [name |-> row.projectName, color |-> "#999999",
                                        id |-> acc.nextId])
                           ELSE acc.projects,
              nextId |-> entryId + 1,
              addedCount |-> acc.addedCount + 1]

RECURSIVE ImportRows(_, _, _)
\* importedData.forEach(row => ...)
ImportRows(rows, snapshot, acc) ==
    IF rows = <<>> THEN acc
    ELSE ImportRows(Tail(rows), snapshot, ImportRow(Head(rows), snapshot, acc))

\* handleImport(e): a file is chosen and Papa.parse starts reading it
HandleImport(rows) ==
    /\ "parsing" \in DOMAIN ui
    /\ ~ui.parsing
    /\ Len(entries) + Len(rows) <= MaxEntries
    /\ ui' = [ui EXCEPT !.parsing = TRUE, !.store = [projects |-> projects], !.rows = rows]
    /\ lastOp' = "handleImport"
    /\ UNCHANGED <<entries, projects, tags, clock, nextId>>

\* the complete callback of Papa.parse
ParseComplete ==
    /\ "parsing" \in DOMAIN ui
    /\ ui.parsing
    /\ LET done == ImportRows(ui.rows, ui.store.projects,
                              [entries |-> entries, projects |-> projects,
                               nextId |-> nextId, addedCount |-> 0])
       IN  /\ entries' = done.entries
           /\ projects' = done.projects
           /\ nextId' = done.nextId
           /\ ui' = [ui EXCEPT !.parsing = FALSE, !.addedCount = done.addedCount]
    /\ lastOp' = "parseComplete"
    /\ UNCHANGED <<tags, clock>>

\* rows of a CSV file as Papa.parse gives them with header: true: a closed break
\* of project A, a running entry of project B without a type, and a row without a
\* startTime that names project B
CsvRows ==
    { [startTime |-> [iso |-> 1], endTime |-> [iso |-> 2], type |-> "break",
       projectName |-> "A", notes |-> "n"],
      [startTime |-> [iso |-> 2], endTime |-> EmptyText, type |-> "",
       projectName |-> "B", notes |-> ""],
      [startTime |-> EmptyText, endTime |-> EmptyText, type |-> "",
       projectName |-> "B", notes |-> ""] }

\* the files: every sequence of one to MaxRows rows
CsvFiles == UNION { [1..n -> CsvRows] : n \in 1..MaxRows }

\* the settings page when it is opened on the empty store
InitCsv ==
    /\ ui = [page |-> "settings", parsing |-> FALSE, store |-> [projects |-> <<>>],
             rows |-> <<>>, addedCount |-> Undefined]
    /\ entries = <<>>
    /\ projects = <<>>
    /\ tags = <<>>
    /\ clock = 1
    /\ nextId = 1
    /\ lastOp = "init"

\* ------------------------------------------------------ report inputs
\* 00:00 of the day the reports are looked at, a Wednesday
Today == 2 * MsPerDay

\* readings of Date.now(): 10:00, and 10 ms before and after the next midnight
ReportInstants ==
    { Today + 10 * MsPerHour, Today + MsPerDay - 10, Today + MsPerDay + 10 }

\* the longest time the model lets pass between the readings of one render, in ms
RenderMs == 20

\* the readings of one render of the Reports page, none before the instant from:
\* the memos of one render run one after the other
ReportReadings(from) ==
    LET after(t) == {u \in ReportInstants : u >= t}
    IN  UNION { { [range |-> a, filter |-> b, bar |-> b, pie |-> b] :
                      b \in {u \in after(a) : u - a <= RenderMs} } :
                    a \in after(from) }

\* the project an entry can be given in the editor: none or one of the store's
ProjectChoices == {Undefined} \cup {projects[i].id : i \in 1..Len(projects)}

\* entries saved through the editor: an hour of work this morning for a project, an
\* hour of work across last midnight, an hour of work fourteen days ago before
\* 10:00 and one across 10:00, half a minute of work, a quarter of an hour of break
ReportEntries(pid) ==
    { [startTime |-> Today + 8 * MsPerHour, endTime |-> Today + 9 * MsPerHour,
       type |-> "work", projectId |-> pid, tagIds |-> <<>>, notes |-> ""],
      [startTime |-> Today - 30 * MsPerMinute, endTime |-> Today + 30 * MsPerMinute,
       type |-> "work", projectId |-> Undefined, tagIds |-> <<>>, notes |-> ""],
      [startTime |-> SubDays(Today, 14) + 8 * MsPerHour,
       endTime |-> SubDays(Today, 14) + 9 * MsPerHour,
       type |-> "work", projectId |-> Undefined, tagIds |-> <<>>, notes |-> ""],
      [startTime |-> SubDays(Today, 14) + 9 * MsPerHour + 30 * MsPerMinute,
       endTime |-> SubDays(Today, 14) + 10 * MsPerHour + 30 * MsPerMinute,
       type |-> "work", projectId |-> Undefined, tagIds |-> <<>>, notes |-> ""],
      [startTime |-> Today + 9 * MsPerHour, endTime |-> Today + 9 * MsPerHour + 30 * MsPerSecond,
       type |-> "work", projectId |-> Undefined, tagIds |-> <<>>, notes |-> ""],
      [startTime |-> Today + 7 * MsPerHour, endTime |-> Today + 7 * MsPerHour + 15 * MsPerMinute,
       type |-> "break", projectId |-> Undefined, tagIds |-> <<>>, notes |-> ""] }

\* the tags an entry can be given in the editor: none or one of the store's
TagChoices == {<<>>} \cup {<<tags[i].id>> : i \in 1..Len(tags)}

\* the entries of ReportEntries that are work of this morning, with tags
TaggedEntries(pid, tagIds) ==
    { Spread(entry, [tagIds |-> tagIds]) :
          entry \in {e \in ReportEntries(pid) : e.type = "work" /\ e.startTime >= Today} }

\* entries saved through the editor that test the clipping: work whose end is an
\* hour before its start, and work running since 22:00 two days ago
ClipEntries ==
    { [startTime |-> Today + 9 * MsPerHour, endTime |-> Today + 8 * MsPerHour,
       type |-> "work", projectId |-> Undefined, tagIds |-> <<>>, notes |-> ""],
      [startTime |-> SubDays(Today, 2) + 22 * MsPerHour, endTime |-> Null,
       type |-> "work", projectId |-> Undefined, tagIds |-> <<>>, notes |-> ""] }

\* the entries of ReportEntries that start between yesterday and 08:00 today
ViewEntries(pid) ==
    { e \in ReportEntries(pid) :
          e.startTime >= Today - MsPerDay /\ e.startTime <= Today + 8 * MsPerHour }

\* the store when the report model starts, at 10:00 of Today
InitReports ==
    /\ ui = NoView
    /\ entries = <<>>
    /\ projects = <<>>
    /\ tags = <<>>
    /\ clock = Today + 10 * MsPerHour
    /\ nextId = 1
    /\ lastOp = "init"

\* ------------------------------------------------------ specifications
\* Every operation that reads Date.now() takes the reading `now` from clock..MaxClock:
\* the wall clock does not run backwards between two operations.

\* startEntry alone, with every argument list
NextStart ==
    \E now \in clock..MaxClock : \E args \in StartArgs : StartEntry(args, now)

\* the timer: startEntry and stopEntry
NextTimer ==
    \/ \E now \in clock..MaxClock : \E args \in StartArgs : StartEntry(args, now)
    \/ \E now \in clock..MaxClock : StopEntry(now)

\* the timer and manual entries
NextManual ==
    \/ \E now \in clock..MaxClock : \E args \in UiStartArgs : StartEntry(args, now)
    \/ \E now \in clock..MaxClock : StopEntry(now)
    \/ \E entry \in ManualEntries : AddManualEntry(entry)

\* creating and updating entries
NextUpdate ==
    \/ /\ Len(entries) < MaxEdited
       /\ \E now \in clock..MaxClock : \E args \in UiStartArgs : StartEntry(args, now)
    \/ /\ Len(entries) < MaxEdited
       /\ \E entry \in ManualEntries : AddManualEntry(entry)
    \/ \E id \in IdsOf(entries) : \E updates \in EntryUpdates : UpdateEntry(id, updates)

\* creating and deleting entries
NextDelete ==
    \/ \E now \in clock..MaxClock : \E args \in UiStartArgs : StartEntry(args, now)
    \/ \E entry \in ManualEntries : AddManualEntry(entry)
    \/ \E id \in IdsOf(entries) : DeleteEntry(id)

\* the six operations that write the entries collection
NextEntries ==
    \/ /\ Len(entries) < MaxEdited
       /\ \E now \in clock..MaxClock : \E args \in UiStartArgs : StartEntry(args, now)
    \/ \E now \in clock..MaxClock : StopEntry(now)
    \/ /\ Len(entries) < MaxEdited
       /\ \E entry \in ManualEntries : AddManualEntry(entry)
    \/ \E id \in IdsOf(entries) : \E updates \in EntryUpdates : UpdateEntry(id, updates)
    \/ \E id \in IdsOf(entries) : DeleteEntry(id)
    \/ \E data \in ImportPayloads : ImportData(data)

\* the operations on the projects and tags collections
NextCatalog ==
    \/ \E project \in ProjectInputs : AddProject(project)
    \/ \E id \in IdsOf(projects) : \E updates \in ProjectUpdates : UpdateProject(id, updates)
    \/ \E id \in IdsOf(projects) : DeleteProject(id)
    \/ \E tag \in TagInputs : AddTag(tag)
    \/ \E id \in IdsOf(tags) : \E updates \in TagUpdates : UpdateTag(id, updates)
    \/ \E id \in IdsOf(tags) : DeleteTag(id)

\* creating entries and updating them with an updates argument that carries an id
NextRekey ==
    \/ /\ Len(entries) < MaxEdited
       /\ \E now \in clock..MaxClock : \E args \in UiStartArgs : StartEntry(args, now)
    \/ /\ Len(entries) < MaxEdited
       /\ \E entry \in ManualEntries : AddManualEntry(entry)
    \/ \E id \in IdsOf(entries) : \E updates \in EntryUpdates \cup IdUpdates :
          UpdateEntry(id, updates)

\* filling the store and restoring a backup over it
NextImport ==
    \/ /\ Len(entries) < MaxEdited
       /\ \E now \in clock..MaxClock : \E args \in UiStartArgs : StartEntry(args, now)
    \/ /\ Len(entries) < MaxEdited
       /\ \E entry \in ManualEntries : AddManualEntry(entry)
    \/ \E project \in ProjectInputs : AddProject(project)
    \/ \E tag \in TagInputs : AddTag(tag)
    \/ \E data \in ImportPayloads : ImportData(data)

\* the arguments of the start buttons for work and for a working break
ReportStartArgs == { args \in UiStartArgs : args.type = "work" \/ args.isWorkingBreak }

\* entries and a project are made, then the Reports page shows them
NextReports ==
    \/ /\ ui = NoView
       /\ \E project \in {p \in ProjectInputs : p.name = "A"} : AddProject(project)
    \/ /\ ui = NoView
       /\ Len(entries) < MaxEdited
       /\ \E pid \in ProjectChoices : \E entry \in ReportEntries(pid) : AddManualEntry(entry)
    \/ /\ ui = NoView
       /\ Len(entries) < MaxEdited
       /\ \E args \in ReportStartArgs : StartEntry(args, clock)
    \/ /\ ui = NoView
       /\ \E period \in Periods : \E readings \in ReportReadings(clock) :
             RenderReports(period, readings)

\* entries are given projects and tags, these are deleted, then the Reports page
\* shows the entries
NextDangling ==
    \/ /\ ui = NoView
       /\ \E project \in ProjectInputs : AddProject(project)
    \/ /\ ui = NoView
       /\ \E id \in IdsOf(projects) : DeleteProject(id)
    \/ /\ ui = NoView
       /\ \E tag \in TagInputs : AddTag(tag)
    \/ /\ ui = NoView
       /\ \E id \in IdsOf(tags) : DeleteTag(id)
    \/ /\ ui = NoView
       /\ Len(entries) < MaxEdited
       /\ \E pid \in ProjectChoices : \E tagIds \in TagChoices :
             \E entry \in TaggedEntries(pid, tagIds) : AddManualEntry(entry)
    \/ /\ ui = NoView
       /\ \E period \in Periods :
             RenderReports(period, [range |-> clock, filter |-> clock,
                                    bar |-> clock, pie |-> clock])

\* entries, well formed or not, are made, then the Reports page shows them
NextClip ==
    \/ /\ ui = NoView
       /\ Len(entries) < MaxEdited
       /\ \E entry \in ReportEntries(Undefined) \cup ClipEntries : AddManualEntry(entry)
    \/ /\ ui = NoView
       /\ Len(entries) < MaxEdited
       /\ \E args \in ReportStartArgs : StartEntry(args, clock)
    \/ /\ ui = NoView
       /\ \E period \in Periods : \E readings \in ReportReadings(clock) :
             RenderReports(period, readings)

\* a project, a tag and entries are made, then one of the two pages shows its totals
NextViews ==
    \/ /\ ui = NoView
       /\ \E project \in {p \in ProjectInputs : p.name = "A"} : AddProject(project)
    \/ /\ ui = NoView
       /\ \E tag \in TagInputs : AddTag(tag)
    \/ /\ ui = NoView
       /\ Len(entries) < MaxEdited
       /\ \E pid \in ProjectChoices : \E entry \in ViewEntries(pid) : AddManualEntry(entry)
    \/ /\ ui = NoView
       /\ Len(entries) < MaxEdited
       /\ \E args \in ReportStartArgs : StartEntry(args, clock)
    \/ /\ ui = NoView
       /\ \E period \in Periods : \E readings \in ReportReadings(clock) :
             RenderReports(period, readings)
    \/ /\ ui = NoView
       /\ \E reading \in {t \in ReportInstants : t >= clock} :
             \E now \in {t \in ReportInstants : clock <= t /\ t <= reading} :
                RenderDashboard(now, reading)

\* the Dashboard's buttons and its tick; effects run before the next event
NextTick ==
    \/ /\ ~ResetPending
       /\ Len(entries) < MaxEdited
       /\ \E now \in {t \in TickInstants : t >= clock} : \E args \in UiStartArgs :
             StartEntry(args, now)
    \/ /\ ~ResetPending
       /\ \E now \in {t \in TickInstants : t >= clock} : StopEntry(now)
    \/ /\ ~ResetPending
       /\ \E m \in {5, 10, 25, 55} : QuickTarget(m)
    \/ /\ ~ResetPending
       /\ \E currentTime \in {t \in TickInstants : t >= clock} : Tick(currentTime)
    \/ ResetVibration

\* the settings page: entries exist, projects are added and deleted before and
\* while a CSV file is imported
NextCsv ==
    \/ /\ lastOp # "parseComplete"
       /\ \E project \in ProjectInputs : AddProject(project)
    \/ /\ lastOp # "parseComplete"
       /\ \E id \in IdsOf(projects) : DeleteProject(id)
    \/ /\ ui.addedCount = Undefined
       /\ ~ui.parsing
       /\ Len(entries) < MaxEdited
       /\ \E entry \in ManualEntries : AddManualEntry(entry)
    \/ /\ ui.addedCount = Undefined
       /\ \E rows \in CsvFiles : HandleImport(rows)
    \/ ParseComplete

\* entries are made and stopped, then the Dashboard shows today's totals
NextToday ==
    \/ /\ ui = NoView
       /\ Len(entries) < MaxEdited
       /\ \E entry \in ReportEntries(Undefined) : AddManualEntry(entry)
    \/ /\ ui = NoView
       /\ Len(entries) < MaxEdited
       /\ \E args \in UiStartArgs : StartEntry(args, clock)
    \/ /\ ui = NoView
       /\ \E now \in {t \in ReportInstants : t >= clock} : StopEntry(now)
    \/ /\ ui = NoView
       /\ \E reading \in {t \in ReportInstants : t >= clock} :
             \E now \in {t \in ReportInstants : clock <= t /\ t <= reading} :
                RenderDashboard(now, reading)

\* the timer buttons and the entry editor of the Dashboard
NextEditor ==
    \/ /\ Len(entries) < MaxEdited
       /\ \E now \in {t \in EditorInstants : t >= clock} : StartEntry([type |-> "work"], now)
    \/ \E now \in {t \in EditorInstants : t >= clock} : StopEntry(now)
    \/ \E i \in 1..Len(entries) : \E edit \in EditorEdits(EditorFormOf(entries[i])) :
          EditEntry(i, edit)
    \/ /\ Len(entries) < MaxEdited
       /\ \E edit \in EditorEdits(EditorFormNew(clock)) : AddEntry(edit)

\* every store operation
Next ==
    \/ \E now \in clock..MaxClock : \E args \in StartArgs : StartEntry(args, now)
    \/ \E now \in clock..MaxClock : StopEntry(now)
    \/ \E entry \in ManualEntries : AddManualEntry(entry)
    \/ \E id \in IdsOf(entries) : \E updates \in EntryUpdates : UpdateEntry(id, updates)
    \/ \E id \in IdsOf(entries) : DeleteEntry(id)
    \/ \E project \in ProjectInputs : AddProject(project)
    \/ \E id \in IdsOf(projects) : \E updates \in ProjectUpdates : UpdateProject(id, updates)
    \/ \E id \in IdsOf(projects) : DeleteProject(id)
    \/ \E tag \in TagInputs : AddTag(tag)
    \/ \E id \in IdsOf(tags) : \E updates \in TagUpdates : UpdateTag(id, updates)
    \/ \E id \in IdsOf(tags) : DeleteTag(id)
    \/ \E data \in ImportPayloads : ImportData(data)

Spec == Init /\ [][Next]_vars

SpecStart == Init /\ [][NextStart]_vars

SpecTimer == Init /\ [][NextTimer]_vars

SpecManual == Init /\ [][NextManual]_vars

SpecUpdate == Init /\ [][NextUpdate]_vars

SpecDelete == Init /\ [][NextDelete]_vars

SpecEntries == Init /\ [][NextEntries]_vars

SpecCatalog == Init /\ [][NextCatalog]_vars

SpecRekey == Init /\ [][NextRekey]_vars

SpecImport == Init /\ [][NextImport]_vars

SpecReports == InitReports /\ [][NextReports]_vars

SpecDangling == InitReports /\ [][NextDangling]_vars

SpecClip == InitReports /\ [][NextClip]_vars

SpecViews == InitReports /\ [][NextViews]_vars

SpecTick == InitTick /\ [][NextTick]_vars

SpecToday == InitReports /\ [][NextToday]_vars

SpecCsv == InitCsv /\ [][NextCsv]_vars

SpecEditor == InitEditor /\ [][NextEditor]_vars

\* ------------------------------------------------------------- claims
\* positions of the running entries
OpenSet(arr) == {i \in 1..Len(arr) : arr[i].endTime = Null}

\* C1: in every state reachable through startEntry, stopEntry, addManualEntry,
\* updateEntry, deleteEntry and importData, at most one entry has endTime = null.
C1_AtMostOneOpen == Cardinality(OpenSet(entries)) <= 1

\* C2: after any sequence of startEntry calls alone, at most one entry is running,
\* and it is the entry the most recent call created (the last one, newest id).
C2_StartOnlySingleOpen ==
    /\ Cardinality(OpenSet(entries)) <= 1
    /\ entries # <<>> =>
          /\ OpenSet(entries) = {Len(entries)}
          /\ entries[Len(entries)].id = nextId - 1

C2_Witness ==
    /\ lastOp = "startEntry"
    /\ Len(entries) >= 3
    /\ entries[Len(entries)].endTime = Null

\* C3: startEntry called while exactly one entry is running closes that entry at the
\* instant `now` the call read, appends exactly one new running entry that starts
\* at the same `now`, and so grows the collection by one.
C3_StartClosesOpen ==
    [][(lastOp' = "startEntry" /\ Cardinality(OpenSet(entries)) = 1) =>
          LET i == CHOOSE k \in OpenSet(entries) : TRUE
              n == Len(entries)
          IN  /\ Len(entries') = n + 1
              /\ entries'[i] = [entries[i] EXCEPT !.endTime = clock']
              /\ entries'[n + 1].startTime = clock'
              /\ entries'[n + 1].endTime = Null
              /\ entries'[i].endTime = entries'[n + 1].startTime
              /\ OpenSet(entries') = {n + 1}]_vars

C3_Witness ==
    /\ lastOp = "startEntry"
    /\ Len(entries) = 2
    /\ nextId = 3
    /\ entries[1].startTime < entries[1].endTime
    /\ entries[1].endTime = entries[2].startTime
    /\ entries[2].endTime = Null

\* C4: the entry startEntry creates carries 1500 (work) or 300 (break) as
\* targetDuration when the argument is not supplied, and exactly the supplied value,
\* 0 included, when it is.
C4_TargetDefault ==
    [][\A args \in StartArgs : \A now \in 1..MaxClock :
          StartEntry(args, now) =>
              entries'[Len(entries')].targetDuration =
                  IF "targetDuration" \in DOMAIN args /\ args.targetDuration # Undefined
                  THEN args.targetDuration
                  ELSE IF args.type = "work" THEN 1500 ELSE 300]_vars

C4_Witness ==
    /\ lastOp = "startEntry"
    /\ \E i, j, k \in 1..Len(entries) :
          /\ entries[i].type = "work" /\ entries[i].targetDuration = 0
          /\ entries[j].type = "work" /\ entries[j].targetDuration = 1500
          /\ entries[k].type = "break" /\ entries[k].targetDuration = 300

\* C5: from the empty store, startEntry followed by stopEntry leaves exactly one
\* entry, closed, whose endTime is not before its startTime.
C5_StartThenStop ==
    [][(lastOp = "startEntry" /\ Len(entries) = 1 /\ lastOp' = "stopEntry") =>
          /\ Len(entries') = 1
          /\ entries'[1].endTime # Null
          /\ entries'[1].endTime >= entries'[1].startTime]_vars

C5_Witness ==
    /\ lastOp = "stopEntry"
    /\ Len(entries) = 1
    /\ nextId = 2
    /\ entries[1].endTime # Null
    /\ entries[1].endTime > entries[1].startTime

\* C6: stopEntry with no running entry leaves entries, projects and tags unchanged;
\* with a running entry it sets that entry's endTime to `now` and changes no other
\* field of that entry and no other entry.
C6_StopFrame ==
    [][lastOp' = "stopEntry" =>
          /\ projects' = projects
          /\ tags' = tags
          /\ IF OpenSet(entries) = {}
             THEN entries' = entries
             ELSE \E i \in OpenSet(entries) :
                     entries' = [entries EXCEPT ![i] = [@ EXCEPT !.endTime = clock']]]_vars

C6_Witness ==
    /\ lastOp = "stopEntry"
    /\ Len(entries) >= 2
    /\ Cardinality(OpenSet(entries)) = 1
    /\ \E i \in 1..Len(entries) : entries[i].endTime = clock

\* C7: addManualEntry appends the supplied entry under a fresh id and neither closes
\* nor alters an existing entry; a running manual entry added while another entry
\* is running leaves two running entries.
C7_ManualAppends ==
    [][\A entry \in ManualEntries :
          AddManualEntry(entry) =>
              LET n == Len(entries)
              IN  /\ Len(entries') = n + 1
                  /\ SubSeq(entries', 1, n) = entries
                  /\ \A k \in DOMAIN entry : entries'[n + 1][k] = entry[k]
                  /\ DOMAIN entries'[n + 1] = DOMAIN entry \cup {"id"}
                  /\ \A i \in 1..n : entries[i].id # entries'[n + 1].id
                  /\ (entry.endTime = Null /\ OpenSet(entries) # {}) =>
                        Cardinality(OpenSet(entries')) >= 2]_vars

C7_Witness ==
    /\ lastOp = "addManualEntry"
    /\ Cardinality(OpenSet(entries)) = 2
    /\ Len(entries) = 2

\* C8: updateEntry(id, updates) replaces, in the entry whose id matches, exactly the
\* fields present in updates and keeps every other field and every other entry;
\* when no entry has that id the collection is unchanged.
C8_UpdateMerges ==
    [][\A id \in IdsOf(entries) : \A updates \in EntryUpdates :
          UpdateEntry(id, updates) =>
              /\ Len(entries') = Len(entries)
              /\ \A i \in 1..Len(entries) :
                    IF entries[i].id = id
                    THEN /\ DOMAIN entries'[i] = DOMAIN entries[i] \cup DOMAIN updates
                         /\ \A k \in DOMAIN updates : entries'[i][k] = updates[k]
                         /\ \A k \in DOMAIN entries[i] \ DOMAIN updates :
                               entries'[i][k] = entries[i][k]
                    ELSE entries'[i] = entries[i]
              /\ (\A i \in 1..Len(entries) : entries[i].id # id) => entries' = entries]_vars

C8_Witness ==
    /\ lastOp = "updateEntry"
    /\ Len(entries) >= 2
    /\ \E i, j \in 1..Len(entries) :
          /\ i # j
          /\ "notes" \in DOMAIN entries[i] /\ entries[i].notes = "x"
          /\ entries[i].endTime = Null
          /\ "targetDuration" \in DOMAIN entries[i] /\ entries[i].targetDuration = 1500
          /\ "notes" \notin DOMAIN entries[j]

\* C9: deleteEntry(id) removes the entry with that id and keeps all other entries
\* unchanged and in the same relative order; with no such entry the collection is
\* unchanged.
C9_DeleteKeepsOrder ==
    [][\A id \in IdsOf(entries) :
          DeleteEntry(id) =>
              LET keep == {i \in 1..Len(entries) : entries[i].id # id}
              IN  /\ Len(entries') = Cardinality(keep)
                  /\ \A i \in keep :
                        entries'[Cardinality({j \in keep : j <= i})] = entries[i]
                  /\ (keep = 1..Len(entries)) => entries' = entries]_vars

C9_Witness ==
    /\ lastOp = "deleteEntry"
    /\ Len(entries) = 2
    /\ entries[1].id = 1
    /\ entries[2].id = 3

\* what add leaves: arr with one more element, the supplied fields under a fresh id
Added(arr, arr2, input) ==
    LET n == Len(arr)
    IN  /\ Len(arr2) = n + 1
        /\ SubSeq(arr2, 1, n) = arr
        /\ DOMAIN arr2[n + 1] = DOMAIN input \cup {"id"}
        /\ \A k \in DOMAIN input : arr2[n + 1][k] = input[k]
        /\ \A i \in 1..n : arr[i].id # arr2[n + 1].id

\* what update leaves: the matching element with the given fields merged in
Merged(arr, arr2, id, updates) ==
    /\ Len(arr2) = Len(arr)
    /\ \A i \in 1..Len(arr) :
          IF arr[i].id = id
          THEN /\ DOMAIN arr2[i] = DOMAIN arr[i] \cup DOMAIN updates
               /\ \A k \in DOMAIN updates : arr2[i][k] = updates[k]
               /\ \A k \in DOMAIN arr[i] \ DOMAIN updates : arr2[i][k] = arr[i][k]
          ELSE arr2[i] = arr[i]

\* what delete leaves: the elements with another id, in their order
Removed(arr, arr2, id) ==
    LET keep == {i \in 1..Len(arr) : arr[i].id # id}
    IN  /\ Len(arr2) = Cardinality(keep)
        /\ \A i \in keep : arr2[Cardinality({j \in keep : j <= i})] = arr[i]

\* no element of arr has this id
NoMatch(arr, id) == \A i \in 1..Len(arr) : arr[i].id # id

\* C10: for projects and for tags, add appends one entity with a generated id,
\* update merges the given fields into the entity with the matching id, delete
\* removes it; update and delete with an id that matches no entity leave the
\* projects and tags collections unchanged.
C10_CatalogCrud ==
    [][/\ \A project \in ProjectInputs :
             AddProject(project) => (Added(projects, projects', project) /\ tags' = tags)
       /\ \A tag \in TagInputs :
             AddTag(tag) => (Added(tags, tags', tag) /\ projects' = projects)
       /\ \A id \in IdsOf(projects) : \A updates \in ProjectUpdates :
             UpdateProject(id, updates) =>
                /\ Merged(projects, projects', id, updates)
                /\ tags' = tags
                /\ NoMatch(projects, id) => projects' = projects
       /\ \A id \in IdsOf(tags) : \A updates \in TagUpdates :
             UpdateTag(id, updates) =>
                /\ Merged(tags, tags', id, updates)
                /\ projects' = projects
                /\ NoMatch(tags, id) => tags' = tags
       /\ \A id \in IdsOf(projects) :
             DeleteProject(id) =>
                /\ Removed(projects, projects', id)
                /\ tags' = tags
                /\ NoMatch(projects, id) => projects' = projects
       /\ \A id \in IdsOf(tags) :
             DeleteTag(id) =>
                /\ Removed(tags, tags', id)
                /\ projects' = projects
                /\ NoMatch(tags, id) => tags' = tags]_vars

C10_Witness ==
    /\ lastOp = "deleteTag"
    /\ tags = <<>>
    /\ Len(projects) = 2
    /\ \E i \in 1..2 : "isArchived" \in DOMAIN projects[i] /\ projects[i].name = "B"
    /\ projects[1].id # projects[2].id

\* C11: the id of an entry is immutable: an operation other than importData leaves
\* every entry that is present before and after it with the id it carried
\* (updateEntry keeps each entry at its position).
C11_IdImmutable ==
    [][lastOp' = "updateEntry" =>
          /\ Len(entries') = Len(entries)
          /\ \A i \in 1..Len(entries) : entries'[i].id = entries[i].id]_vars

\* C12: no two entries share an id, no two projects and no two tags, in every state
\* reachable through the store operations with fresh ids generated at creation.
C12_UniqueIds ==
    /\ \A i, j \in 1..Len(entries) : i # j => entries[i].id # entries[j].id
    /\ \A i, j \in 1..Len(projects) : i # j => projects[i].id # projects[j].id
    /\ \A i, j \in 1..Len(tags) : i # j => tags[i].id # tags[j].id

\* C13: once an entry is closed it is never open again: no step (store operation or
\* save through the entry editor) takes an entry with an endTime to an entry of the
\* same id whose endTime is null.
C13_NeverReopened ==
    [][\A i \in 1..Len(entries) : \A j \in 1..Len(entries') :
          (entries[i].id = entries'[j].id /\ entries[i].endTime # Null)
              => entries'[j].endTime # Null]_vars

\* C14: importData(d) replaces the three collections and never merges: afterwards
\* entries, projects and tags are d.entries, d.projects and d.tags whatever the
\* store held, a collection that d omits is empty, and a backup of three empty
\* collections leaves the store empty.
C14_ImportReplaces ==
    [][\A data \in ImportPayloads :
          ImportData(data) =>
              /\ entries' = IF "entries" \in DOMAIN data THEN data.entries ELSE <<>>
              /\ projects' = IF "projects" \in DOMAIN data THEN data.projects ELSE <<>>
              /\ tags' = IF "tags" \in DOMAIN data THEN data.tags ELSE <<>>
              /\ (\A key \in {"entries", "projects", "tags"} :
                      key \in DOMAIN data /\ data[key] = <<>>)
                     => (entries' = <<>> /\ projects' = <<>> /\ tags' = <<>>)]_vars

\* a backup without projects and tags was imported over a store that had created
\* elements of its own: only the backup's entries are left
C14_Witness ==
    /\ lastOp = "importData"
    /\ nextId > 2
    /\ Len(entries) = 2
    /\ entries[1].id = 51
    /\ projects = <<>>
    /\ tags = <<>>

\* the clip formula max(0, min(effective end, wEnd) - max(start, wStart)): the
\* duration an entry contributes to the window [wStart, wEnd] when the current time
\* is now
Clip(e, wStart, wEnd, now) ==
    LET effectiveEnd == IF e.endTime # Null THEN e.endTime ELSE now
        from == Max(e.startTime, wStart)
        to == Min(effectiveEnd, wEnd)
    IN  IF to > from THEN to - from ELSE 0

\* the ids of the projects the store holds
ProjectIds == {projects[i].id : i \in 1..Len(projects)}

\* the tag ids that entries refer to
UsedTagIds == UNION {{entries[i].tagIds[j] : j \in 1..Len(entries[i].tagIds)} : i \in 1..Len(entries)}

\* C15: deleteProject(id) and deleteTag(id) leave the entries as they are, dangling
\* projectId and tagIds included, and a later report over these entries shows the work
\* time of the entries of a project that is gone under the name 'Unknown'.
C15_DanglingProject ==
    [][/\ \A id \in IdsOf(projects) : DeleteProject(id) => entries' = entries
       /\ \A id \in IdsOf(tags) : DeleteTag(id) => entries' = entries
       /\ lastOp' = "renderReports" =>
              /\ Len(ui'.pieData) >= Len(ui'.projectMap)
              /\ \A k \in 1..Len(ui'.projectMap) :
                    ui'.projectMap[k].pid \notin ProjectIds =>
                        /\ ui'.pieData[k].name = "Unknown"
                        /\ ui'.pieData[k].value = ToFixed2(ui'.projectMap[k].ms)
                        /\ ui'.projectMap[k].ms =
                              SumSeq([i \in 1..Len(entries) |->
                                        IF /\ entries[i].type = "work"
                                           /\ entries[i].projectId = ui'.projectMap[k].pid
                                        THEN Clip(entries[i], ui'.range.start, ui'.range.end,
                                                  ui'.readings.pie)
                                        ELSE 0])]_vars

\* the report shows an hour of work under 'Unknown' for an entry whose project and
\* whose tag were deleted
C15_Witness ==
    /\ lastOp = "renderReports"
    /\ Len(entries) = 1
    /\ projects = <<>>
    /\ tags = <<>>
    /\ Truthy(entries[1].projectId)
    /\ UsedTagIds # {}
    /\ ui.pieData = << [name |-> "Unknown", value |-> 100] >>

\* what the day buckets of the bar chart get from the entry e alone
BarOf(e) ==
    BarData(FilteredEntries(<<e>>, ui.range, ui.readings.filter), ui.range, ui.readings.bar)

\* what the per-project totals (the unassigned one included) get from the entry e alone
PieOf(e) ==
    LET alone == FilteredEntries(<<e>>, ui.range, ui.readings.filter)
        map == ProjectMap(alone, ui.range, ui.readings.pie)
    IN  NoProjectMs(alone, ui.range, ui.readings.pie)
            + SumSeq([k \in 1..Len(map) |-> map[k].ms])

\* C16: in a report, every work entry contributes to every day bucket the clip
\* formula over that day's bounds and to the per-project totals the clip formula
\* over the report range, with the end of a running entry taken as now.
C16_ClipFormula ==
    lastOp = "renderReports" =>
        \A i \in 1..Len(entries) :
            entries[i].type = "work" =>
                /\ \A k \in 1..Len(ui.barData) :
                      BarOf(entries[i])[k].workMs =
                          Clip(entries[i], ui.barData[k].fullDate,
                               EndOfDay(ui.barData[k].fullDate), ui.readings.bar)
                /\ PieOf(entries[i]) =
                      Clip(entries[i], ui.range.start, ui.range.end, ui.readings.pie)

\* C17: the daily total of each day of the report range is the sum of the clipped
\* durations of the work entries; break entries, flagged isWorkingBreak or not, add
\* nothing to it.
C17_DailyWorkOnly ==
    lastOp = "renderReports" =>
        \A k \in 1..Len(ui.barData) :
            ui.barData[k].workMs =
                SumSeq([i \in 1..Len(entries) |->
                          IF entries[i].type = "work"
                          THEN Clip(entries[i], ui.barData[k].fullDate,
                                    EndOfDay(ui.barData[k].fullDate), ui.readings.bar)
                          ELSE 0])

\* a closed work entry that starts on one day and ends on the next, both inside the range
SpansMidnight(e) ==
    /\ e.type = "work"
    /\ e.endTime # Null
    /\ StartOfDay(e.endTime) = StartOfDay(e.startTime) + MsPerDay
    /\ ui.range.start <= e.startTime
    /\ e.endTime <= ui.range.end

\* C18: a closed work entry that spans midnight inside the report range gives each
\* of the two days its in-day portion (the time up to midnight, the time from
\* midnight), and its contributions to all day buckets sum to its duration.
C18_MidnightSplit ==
    lastOp = "renderReports" =>
        \A i \in 1..Len(entries) :
            SpansMidnight(entries[i]) =>
                LET e == entries[i]
                    midnight == StartOfDay(e.endTime)
                    bar == BarOf(e)
                IN  /\ \A k \in 1..Len(bar) :
                          /\ bar[k].fullDate = midnight - MsPerDay
                                => bar[k].workMs = midnight - e.startTime
                          /\ bar[k].fullDate = midnight
                                => bar[k].workMs = e.endTime - midnight
                    /\ SumSeq([k \in 1..Len(bar) |-> bar[k].workMs]) = e.endTime - e.startTime

\* C19: on the Dashboard, active is the sum over work entries and flagged breaks and
\* rest the sum over unflagged breaks of each entry's whole seconds clipped to today
\* (from the start to the end of today), the running entry ending now.
C19_TodayClipped ==
    lastOp = "renderDashboard" =>
        LET clipped(e) == Clip(e, StartOfDay(ui.reading), EndOfDay(ui.reading), ui.now)
                              \div MsPerSecond
            flagged(e) == "isWorkingBreak" \in DOMAIN e /\ e.isWorkingBreak
        IN  /\ ui.totalWorkSeconds =
                  SumSeq([i \in 1..Len(entries) |->
                            IF entries[i].type = "work"
                               \/ (entries[i].type = "break" /\ flagged(entries[i]))
                            THEN clipped(entries[i]) ELSE 0])
            /\ ui.totalBreakSeconds =
                  SumSeq([i \in 1..Len(entries) |->
                            IF entries[i].type = "break" /\ ~flagged(entries[i])
                            THEN clipped(entries[i]) ELSE 0])

\* the total the report holds for the project pid: nothing when the map has no such key
ProjectTotal(pid) ==
    SumSeq([k \in 1..Len(ui.projectMap) |->
              IF ui.projectMap[k].pid = pid THEN ui.projectMap[k].ms ELSE 0])

\* C20: the total of a project over the report range is the sum of the clipped
\* durations of the work entries with that projectId; work entries without a
\* projectId add up in one unassigned total, which is in the result exactly when
\* it is above 60 seconds.
C20_ProjectTotals ==
    lastOp = "renderReports" =>
        LET clipped(e) == Clip(e, ui.range.start, ui.range.end, ui.readings.pie)
            work == {i \in 1..Len(entries) : entries[i].type = "work"}
            noProject == SumSeq([i \in 1..Len(entries) |->
                                   IF i \in work /\ ~Truthy(entries[i].projectId)
                                   THEN clipped(entries[i]) ELSE 0])
        IN  /\ \A j \in work :
                  Truthy(entries[j].projectId) =>
                      ProjectTotal(entries[j].projectId) =
                          SumSeq([i \in 1..Len(entries) |->
                                    IF i \in work /\ entries[i].projectId = entries[j].projectId
                                    THEN clipped(entries[i]) ELSE 0])
            /\ ui.noProjectMs = noProject
            /\ (\E k \in 1..Len(ui.pieData) : ui.pieData[k].name = "No Project")
                   <=> noProject > 60 * MsPerSecond

\* the entry lies entirely outside the window [wStart, wEnd] when the time is now
Outside(e, wStart, wEnd, now) ==
    LET effectiveEnd == IF e.endTime # Null THEN e.endTime ELSE now
    IN  effectiveEnd < wStart \/ e.startTime > wEnd

\* C21: no entry contributes a negative duration to a day bucket or to the
\* per-project totals; an entry entirely outside a bucket's window, or outside the
\* report range, contributes zero; an entry that started before a window and is
\* still open contributes at most the window's length, also when now is past its end.
C21_ClipBounds ==
    lastOp = "renderReports" =>
        \A i \in 1..Len(entries) :
            LET e == entries[i]
                bar == BarOf(e)
                pie == PieOf(e)
            IN  /\ pie >= 0
                /\ Outside(e, ui.range.start, ui.range.end, ui.readings.pie) => pie = 0
                /\ (e.endTime = Null /\ e.startTime < ui.range.start)
                       => pie + ui.range.start <= ui.range.end
                /\ \A k \in 1..Len(bar) :
                      LET dayStart == bar[k].fullDate
                          dayEnd == EndOfDay(bar[k].fullDate)
                      IN  /\ bar[k].workMs >= 0
                          /\ ui.barData[k].workMs >= 0
                          /\ Outside(e, dayStart, dayEnd, ui.readings.bar) => bar[k].workMs = 0
                          /\ Outside(e, ui.range.start, ui.range.end, ui.readings.bar)
                                 => bar[k].workMs = 0
                          /\ (e.endTime = Null /\ e.startTime < dayStart)
                                 => bar[k].workMs <= dayEnd - dayStart

\* the week's report holds an entry whose end is before its start and an entry
\* that runs since before yesterday: yesterday's bar is the whole day and no more
C21_Witness ==
    /\ lastOp = "renderReports"
    /\ ui.period = "week"
    /\ \E i \in 1..Len(entries) :
          entries[i].endTime # Null /\ entries[i].endTime < entries[i].startTime
    /\ \E i \in 1..Len(entries) :
          entries[i].endTime = Null /\ entries[i].startTime < Today - MsPerDay
    /\ \E k \in 1..Len(ui.barData) :
          /\ ui.barData[k].fullDate = Today - MsPerDay
          /\ ui.barData[k].workMs = MsPerDay - 1
          /\ ui.readings.bar > EndOfDay(ui.barData[k].fullDate)

\* C22: computing the report (filtered entries, daily totals, per-project totals)
\* and computing the dashboard's totals of today leave the store's entries, projects
\* and tags as they are.
C22_AggregatesPure ==
    [][lastOp' \in {"renderReports", "renderDashboard"}
          => (entries' = entries /\ projects' = projects /\ tags' = tags)]_vars

\* the day's report was computed over a store with a project, a tag and an entry
\* that the filter left out; the entry is still in the store
C22_Witness ==
    /\ lastOp = "renderReports"
    /\ ui.period = "day"
    /\ Len(entries) = 1
    /\ ui.filteredEntries = <<>>
    /\ Len(projects) = 1
    /\ Len(tags) = 1

\* C23: the tick only refreshes now and the bookkeeping of the target alert: a tick
\* (and the effect that clears the bookkeeping) leaves the store's entries,
\* projects and tags as they are, wherever it falls between the user's actions.
C23_TickFrame ==
    [][lastOp' \in {"tick", "resetVibration"}
          => (entries' = entries /\ projects' = projects /\ tags' = tags)]_vars

\* a tick found the running entry past its target and vibrated; the entry still runs
C23_Witness ==
    /\ lastOp = "tick"
    /\ Len(ui.vibrated) = 1
    /\ ui.vibrated[1].at = ui.now
    /\ ActiveEntryIndex(entries) # -1
    /\ entries[ActiveEntryIndex(entries)].id = ui.vibrated[1].id
    /\ entries[ActiveEntryIndex(entries)].startTime < ui.now

\* the id of the Dashboard's activeEntry, Null when there is none
ActiveId(arr) == IF ActiveEntryIndex(arr) = -1 THEN Null ELSE arr[ActiveEntryIndex(arr)].id

EndBeforeStart(form) == form.endTime # EmptyField /\ form.endTime < form.startTime

\* C24: the editor rejects an invalid time range: a submit whose end time is before
\* its start time performs no store operation, and every entry a submit writes has
\* endTime = null or endTime >= startTime.
C24_EditorRejects ==
    [][/\ \A i \in 1..Len(entries) : \A edit \in EditorEdits(EditorFormOf(entries[i])) :
              (/\ EndBeforeStart(Spread(EditorFormOf(entries[i]), edit))
               /\ EditEntry(i, edit))
                  => (entries' = entries /\ projects' = projects /\ tags' = tags)
       /\ \A edit \in EditorEdits(EditorFormNew(clock)) :
              (/\ EndBeforeStart(Spread(EditorFormNew(clock), edit))
               /\ AddEntry(edit))
                  => (entries' = entries /\ projects' = projects /\ tags' = tags)
       /\ lastOp' \in {"updateEntry", "addManualEntry"} =>
              \A j \in 1..Len(entries') :
                  (\A i \in 1..Len(entries) : entries[i] # entries'[j])
                      => (entries'[j].endTime = Null
                          \/ entries'[j].endTime >= entries'[j].startTime)]_vars

\* C25: for each report period the sum of the daily work totals over the days of
\* the range equals the sum of the per-project work totals plus the unassigned
\* total before its 60-second threshold, all in unrounded milliseconds.
C25_BarSumIsPieSum ==
    lastOp = "renderReports" =>
        SumSeq([k \in 1..Len(ui.barData) |-> ui.barData[k].workMs])
            = SumSeq([k \in 1..Len(ui.projectMap) |-> ui.projectMap[k].ms]) + ui.noProjectMs

\* C26: with a non-decreasing clock, from the empty store and through startEntry
\* and stopEntry only: every closed entry has endTime >= startTime, the entries are
\* in non-decreasing startTime order, and each entry's endTime is at most the
\* startTime of the entry after it.
C26_TimerOrdered ==
    /\ \A i \in 1..Len(entries) :
          entries[i].endTime # Null => entries[i].endTime >= entries[i].startTime
    /\ \A i \in 1..(Len(entries) - 1) :
          /\ entries[i].startTime <= entries[i + 1].startTime
          /\ entries[i].endTime # Null
          /\ entries[i].endTime <= entries[i + 1].startTime

\* three entries: the first ran and was closed by the start of the second, the
\* second was stopped at once, the third started and still runs
C26_Witness ==
    /\ Len(entries) = 3
    /\ entries[1].startTime < entries[1].endTime
    /\ entries[1].endTime = entries[2].startTime
    /\ entries[2].endTime = entries[2].startTime
    /\ entries[2].endTime <= entries[3].startTime
    /\ entries[3].endTime = Null
    /\ lastOp = "startEntry"

\* how many entries of arr are running
OpenCount(arr) == Cardinality({i \in 1..Len(arr) : arr[i].endTime = Null})

\* the position of the first running entry of arr, 0 when none runs
FirstOpen(arr) ==
    LET open == {i \in 1..Len(arr) : arr[i].endTime = Null}
    IN  IF open = {} THEN 0 ELSE CHOOSE i \in open : \A j \in open : i <= j

\* C27: when k >= 2 entries are open, stopEntry and startEntry each close only the
\* open entry that comes first in the collection, the one the dashboard shows as
\* active: after stopEntry k - 1 entries are open, after startEntry k are.
C27_FirstOpenOnly ==
    [][LET k == OpenCount(entries)
           first == FirstOpen(entries)
           closedFirst ==
               /\ Len(entries') >= Len(entries)
               /\ entries'[first] = Spread(entries[first], [endTime |-> clock'])
               /\ \A i \in 1..Len(entries) : i # first => entries'[i] = entries[i]
               /\ ActiveEntry(entries) = entries[first]
       IN  k >= 2 =>
              /\ lastOp' = "stopEntry" =>
                    /\ closedFirst
                    /\ Len(entries') = Len(entries)
                    /\ OpenCount(entries') = k - 1
              /\ lastOp' = "startEntry" =>
                    /\ closedFirst
                    /\ Len(entries') = Len(entries) + 1
                    /\ entries'[Len(entries')].endTime = Null
                    /\ OpenCount(entries') = k]_vars

\* startEntry found two entries open: it closed the first, left the second running
\* and appended the new running entry
C27_Witness ==
    /\ lastOp = "startEntry"
    /\ Len(entries) = 3
    /\ entries[1].endTime = clock
    /\ entries[2].endTime = Null
    /\ entries[3].endTime = Null
    /\ entries[3].id = nextId - 1

\* C28: startEntry and stopEntry never modify an entry that is already closed: an
\* entry with an endTime before the call is at the same position with the same
\* fields after the call.
C28_ClosedUntouched ==
    [][lastOp' \in {"startEntry", "stopEntry"} =>
          \A i \in 1..Len(entries) :
              entries[i].endTime # Null
                  => (i <= Len(entries') /\ entries'[i] = entries[i])]_vars

\* stopEntry closed the second entry at the clock's reading; the first entry had
\* been closed earlier and still shows its earlier endTime
C28_Witness ==
    /\ lastOp = "stopEntry"
    /\ Len(entries) >= 2
    /\ entries[1].endTime # Null
    /\ entries[1].endTime < clock
    /\ entries[2].endTime = clock

\* the project names of rows that the project list snapshot does not hold
MissingNames(rows, snapshot) ==
    SelectSeq([k \in 1..Len(rows) |-> rows[k].projectName],
              LAMBDA name : name # "" /\ FindByName(snapshot, name) = Undefined)

\* what one CSV import does with these rows: the existing entries stay and each
\* row appends one entry, which carries a projectId only if the snapshot (the
\* project list before the import began) holds a project of the row's name; each
\* row naming a project the snapshot does not hold appends one project of that name
CsvImportOf(rows, snapshot) ==
    /\ Len(entries') = Len(entries) + Len(rows)
    /\ \A i \in 1..Len(entries) : entries'[i] = entries[i]
    /\ \A k \in 1..Len(rows) :
          LET e == entries'[Len(entries) + k]
          IN  /\ e.startTime = ParseIso(rows[k].startTime)
              /\ Truthy(e.projectId) =>
                    \E i \in 1..Len(snapshot) :
                        snapshot[i].name = rows[k].projectName /\ snapshot[i].id = e.projectId
    /\ Len(projects') = Len(projects) + Len(MissingNames(rows, snapshot))
    /\ \A i \in 1..Len(projects) : projects'[i] = projects[i]
    /\ \A k \in 1..Len(MissingNames(rows, snapshot)) :
          projects'[Len(projects) + k].name = MissingNames(rows, snapshot)[k]

\* C30: during one CSV import project names are resolved against the project list
\* as it was before the import began: every row adds exactly one entry and never
\* replaces one, the entry carries a projectId only if a project of the row's name
\* existed before the import, and every row naming a project that did not exist
\* adds one project of that name, so n such rows of one name add n projects.
C30_CsvImport ==
    [][lastOp' = "parseComplete" => CsvImportOf(ui.rows, ui.store.projects)]_vars

\* C30, amended: the same for the rows that have a startTime; a row without a
\* startTime adds no entry and no project.
C30_CsvImportOfStartedRows ==
    [][lastOp' = "parseComplete" =>
          CsvImportOf(SelectSeq(ui.rows, LAMBDA row : row.startTime # EmptyText),
                      ui.store.projects)]_vars

\* two rows naming the project B, which did not exist when the file was chosen, were
\* imported after an earlier entry: two projects B were added and neither entry is
\* linked
C30_Witness ==
    /\ lastOp = "parseComplete"
    /\ Len(ui.rows) = 2
    /\ Len(entries) = 3
    /\ ui.addedCount = 2
    /\ \A k \in 1..2 : ui.rows[k].projectName = "B"
    /\ \A i \in 1..Len(ui.store.projects) : ui.store.projects[i].name # "B"
    /\ Cardinality({i \in 1..Len(projects) : projects[i].name = "B"}) >= 2
    /\ entries[2].projectId = Undefined
    /\ entries[3].projectId = Undefined

====
